---------------------------- MODULE Spec2Model ----------------------------
(***************************************************************************)
(* A model of the AI Tutor Orchestrator: the rule-based extractor of       *)
(* orchestrator.py, the extractor and the endpoints of main.py, and the    *)
(* content generators of main.py and educational_tools.py.                 *)
(*                                                                         *)
(* Python strings are TLA+ strings, scanned character by character with    *)
(* SubSeq, so that "keyword in text" is the substring test Python makes.   *)
(* A JSON / Python value whose type the code does not fix is a tagged      *)
(* record [t |-> type, v |-> value].                                       *)
(***************************************************************************)
EXTENDS Integers, Sequences, FiniteSets, TLC

VARIABLES
    tool_schemas,   \* orchestrator.tool_schemas, built once by __init__
    pc,             \* "idle": waiting for a call; "responded": a call returned
    op,             \* the operation the last call ran
    snapshot,       \* the ConversationRequest of the call, when it takes one
    tool_request,   \* the arguments of a direct call: tool name and parameter
                    \* mapping, or text and max_length
    response,       \* what the call returned (or the exception it raised)
    http_exception_str, \* whether the installed HTTPException defines __str__
    listed          \* history: what the first list_tools call returned, once
                    \* that call is over

vars ==
    <<tool_schemas, pc, op, snapshot, tool_request, response,
      http_exception_str, listed>>

----------------------------------------------------------------------------
(* Python str operations *)

\* the ASCII letters str.lower() changes, each with its lower-case form
LowerMap ==
    [A |-> "a", B |-> "b", C |-> "c", D |-> "d", E |-> "e", F |-> "f", G |-> "g",
     H |-> "h", I |-> "i", J |-> "j", K |-> "k", L |-> "l", M |-> "m", N |-> "n",
     O |-> "o", P |-> "p", Q |-> "q", R |-> "r", S |-> "s", T |-> "t", U |-> "u",
     V |-> "v", W |-> "w", X |-> "x", Y |-> "y", Z |-> "z"]

\* the ASCII letters str.upper() changes, each with its upper-case form
UpperMap ==
    [a |-> "A", b |-> "B", c |-> "C", d |-> "D", e |-> "E", f |-> "F", g |-> "G",
     h |-> "H", i |-> "I", j |-> "J", k |-> "K", l |-> "L", m |-> "M", n |-> "N",
     o |-> "O", p |-> "P", q |-> "Q", r |-> "R", s |-> "S", t |-> "T", u |-> "U",
     v |-> "V", w |-> "W", x |-> "X", y |-> "Y", z |-> "Z"]

\* str.lower() on one character
LowerChar(c) == IF c \in DOMAIN LowerMap THEN LowerMap[c] ELSE c

\* str.upper() on one character
UpperChar(c) == IF c \in DOMAIN UpperMap THEN UpperMap[c] ELSE c

IsCased(c) == LowerChar(c) # c \/ UpperChar(c) # c

CharAt(s, i) == SubSeq(s, i, i)

RECURSIVE LowerFrom(_, _)
LowerFrom(s, i) ==
    IF i > Len(s) THEN "" ELSE LowerChar(CharAt(s, i)) \o LowerFrom(s, i + 1)

\* s.lower()
Lower(s) == LowerFrom(s, 1)

RECURSIVE TitleFrom(_, _)
TitleFrom(s, i) ==
    IF i > Len(s) THEN ""
    ELSE LET c == CharAt(s, i)
             start == i = 1 \/ ~IsCased(CharAt(s, i - 1))
         IN (IF start THEN UpperChar(c) ELSE LowerChar(c)) \o TitleFrom(s, i + 1)

\* s.title(): a cased character is upper-cased after an uncased one (or at the
\* start) and lower-cased after a cased one
Title(s) == TitleFrom(s, 1)

\* "kw in text": kw occurs in text as a contiguous run of characters
Contains(text, kw) ==
    \E i \in 1..(Len(text) - Len(kw) + 1) : SubSeq(text, i, i + Len(kw) - 1) = kw

\* any(word in text for word in words)
ContainsAny(text, words) == \E j \in 1..Len(words) : Contains(text, words[j])

IsSpace(c) == c = " "

RECURSIVE SplitFrom(_, _, _)
SplitFrom(s, i, cur) ==
    IF i > Len(s)
    THEN IF cur = "" THEN <<>> ELSE <<cur>>
    ELSE IF IsSpace(CharAt(s, i))
         THEN (IF cur = "" THEN <<>> ELSE <<cur>>) \o SplitFrom(s, i + 1, "")
         ELSE SplitFrom(s, i + 1, cur \o CharAt(s, i))

\* s.split(): the maximal runs of non-whitespace characters, in order
Split(s) == SplitFrom(s, 1, "")

RECURSIVE JoinFrom(_, _, _)
JoinFrom(sep, ws, i) ==
    IF i > Len(ws) THEN ""
    ELSE IF i = Len(ws) THEN ws[i]
    ELSE ws[i] \o sep \o JoinFrom(sep, ws, i + 1)

\* sep.join(ws)
Join(sep, ws) == JoinFrom(sep, ws, 1)

\* ws[:n]
Take(ws, n) == SubSeq(ws, 1, IF Len(ws) < n THEN Len(ws) ELSE n)

\* ws[-n:]
LastN(ws, n) == SubSeq(ws, (IF Len(ws) < n THEN 0 ELSE Len(ws) - n) + 1, Len(ws))

Digit(d) ==
    CASE d = 0 -> "0" [] d = 1 -> "1" [] d = 2 -> "2" [] d = 3 -> "3"
      [] d = 4 -> "4" [] d = 5 -> "5" [] d = 6 -> "6" [] d = 7 -> "7"
      [] d = 8 -> "8" [] d = 9 -> "9"

RECURSIVE NatStr(_)
NatStr(n) == IF n < 10 THEN Digit(n) ELSE NatStr(n \div 10) \o Digit(n % 10)

\* str(n) of an int
IntStr(n) == IF n < 0 THEN "-" \o NatStr(-n) ELSE NatStr(n)


----------------------------------------------------------------------------
(* Python / JSON values of no fixed type *)

VStr(s)  == [t |-> "str",  v |-> s]
VInt(n)  == [t |-> "int",  v |-> n]
VBool(b) == [t |-> "bool", v |-> b]
VNull    == [t |-> "null", v |-> "None"]
VList(l) == [t |-> "list", v |-> l]
VDict(d) == [t |-> "dict", v |-> d]

\* what a variable holds when it holds nothing
None == [t |-> "null", v |-> "None"]

\* d.update(e)
Update(d, e) ==
    [k \in DOMAIN d \cup DOMAIN e |-> IF k \in DOMAIN e THEN e[k] ELSE d[k]]

\* d.get(k, default)
Get(d, k, default) == IF k \in DOMAIN d THEN d[k] ELSE default

\* UserInfo.dict()
UserInfoDict(u) == VDict([k \in DOMAIN u |-> VStr(u[k])])

\* ChatMessage.dict()
ChatMessageDict(m) == VDict([role |-> VStr(m.role), content |-> VStr(m.content)])

\* [msg.dict() for msg in chat_history]
ChatHistoryList(h) == VList([i \in 1..Len(h) |-> ChatMessageDict(h[i])])

----------------------------------------------------------------------------
(* orchestrator.py: class TutorOrchestrator *)

\* a fault: the schema of flashcard_generator leaves "subject" out of its
\* required list
ToolSchemas_NoSubject ==
    [note_maker |->
        [required |-> <<"user_info", "chat_history", "topic", "subject",
                        "note_taking_style">>,
         optional |-> <<"include_examples", "include_analogies">>],
     flashcard_generator |->
        [required |-> <<"user_info", "topic", "count", "difficulty">>,
         optional |-> <<"include_examples", "subject">>],
     concept_explainer |->
        [required |-> <<"user_info", "chat_history", "concept_to_explain",
                        "current_topic", "desired_depth">>,
         optional |-> <<>>]]

ToolSchemas ==
    [note_maker |->
        [required |-> <<"user_info", "chat_history", "topic", "subject",
                        "note_taking_style">>,
         optional |-> <<"include_examples", "include_analogies">>],
     flashcard_generator |->
        [required |-> <<"user_info", "topic", "count", "difficulty", "subject">>,
         optional |-> <<"include_examples">>],
     concept_explainer |->
        [required |-> <<"user_info", "chat_history", "concept_to_explain",
                        "current_topic", "desired_depth">>,
         optional |-> <<>>]]

educational_keywords ==
    <<"math", "calculus", "algebra", "geometry", "statistics",
      "science", "biology", "chemistry", "physics", "environmental",
      "history", "literature", "english", "writing", "reading",
      "programming", "computer science", "coding", "photosynthesis",
      "derivatives", "equations", "world war", "photosynthesis">>

\* the dict subject_mapping, as its items in insertion order
subject_mapping ==
    <<<<"math", "Mathematics">>, <<"calculus", "Mathematics">>,
      <<"algebra", "Mathematics">>, <<"geometry", "Mathematics">>,
      <<"statistics", "Mathematics">>, <<"science", "Science">>,
      <<"biology", "Biology">>, <<"chemistry", "Chemistry">>,
      <<"physics", "Physics">>, <<"environmental", "Environmental Science">>,
      <<"history", "History">>, <<"english", "English">>,
      <<"literature", "English">>, <<"programming", "Computer Science">>,
      <<"coding", "Computer Science">>>>

NoteKeywords == <<"note", "notes", "summary", "outline", "study guide">>
PracticeKeywords == <<"flashcard", "quiz", "test", "practice", "review", "memorize">>
ExplainKeywords == <<"explain", "understand", "concept", "how", "what", "why", "confused">>

RECURSIVE AppendContents(_, _, _)
\* for msg in turns: full_text += " " + msg.content.lower()
AppendContents(text, turns, i) ==
    IF i > Len(turns) THEN text
    ELSE AppendContents(text \o " " \o Lower(turns[i].content), turns, i + 1)

RECURSIVE FirstHitFrom(_, _, _)
FirstHitFrom(kws, text, j) ==
    IF j > Len(kws) THEN 0
    ELSE IF Contains(text, kws[j]) THEN j
    ELSE FirstHitFrom(kws, text, j + 1)

\* for keyword in kws: if keyword in text: return ...
\* the index of the first entry of the list kws that occurs in text, 0 if none
FirstHit(kws, text) == FirstHitFrom(kws, text, 1)

\* a fault: the topic scan reads the last two turns only
TopicText_LastTwo(message, chat_history) ==
    AppendContents(Lower(message), LastN(chat_history, 2), 1)

\* a fault: the topic scan reads every turn of the history
TopicText_WholeHistory(message, chat_history) ==
    AppendContents(Lower(message), chat_history, 1)

TopicText(message, chat_history) ==
    AppendContents(Lower(message), LastN(chat_history, 3), 1)

\* a fault: the first words are joined whatever their number
TopicFallback_NoDefault(message) == Join(" ", Take(Split(message), 3))

TopicFallback(message) ==
    LET words == Split(message)
    IN IF Len(words) >= 3 THEN Join(" ", Take(words, 3)) ELSE "General Topic"

_extract_topic(message, chat_history) ==
    LET hit == FirstHit(educational_keywords, TopicText(message, chat_history))
    IN IF hit # 0 THEN Title(educational_keywords[hit]) ELSE TopicFallback(message)

\* a fault: the subject scan reads the last three turns, as the topic scan does
SubjectText_LastThree(message, chat_history) ==
    AppendContents(Lower(message), LastN(chat_history, 3), 1)

SubjectText(message, chat_history) ==
    AppendContents(Lower(message), LastN(chat_history, 2), 1)

_extract_subject(message, chat_history) ==
    LET keys == [j \in 1..Len(subject_mapping) |-> subject_mapping[j][1]]
        hit == FirstHit(keys, SubjectText(message, chat_history))
    IN IF hit # 0 THEN subject_mapping[hit][2] ELSE "General Education"

\* a fault: the practice keywords are tested before the note-taking keywords
_determine_tool_type_PracticeFirst(message) ==
    LET message_lower == Lower(message)
    IN IF ContainsAny(message_lower, PracticeKeywords) THEN "flashcard_generator"
       ELSE IF ContainsAny(message_lower, NoteKeywords) THEN "note_maker"
       ELSE "concept_explainer"

_determine_tool_type(message) ==
    LET message_lower == Lower(message)
    IN IF ContainsAny(message_lower, NoteKeywords) THEN "note_maker"
       ELSE IF ContainsAny(message_lower, PracticeKeywords) THEN "flashcard_generator"
       ELSE IF ContainsAny(message_lower, ExplainKeywords) THEN "concept_explainer"
       ELSE "concept_explainer"

\* a fault: the auditory test is made before the visual test
_infer_note_style_AuditoryFirst(learning_style) ==
    LET style_lower == Lower(learning_style)
    IN IF Contains(style_lower, "auditory") THEN "narrative"
       ELSE IF Contains(style_lower, "visual") THEN "structured"
       ELSE IF Contains(style_lower, "kinesthetic") THEN "bullet_points"
       ELSE "outline"

_infer_note_style(learning_style) ==
    LET style_lower == Lower(learning_style)
    IN IF Contains(style_lower, "visual") THEN "structured"
       ELSE IF Contains(style_lower, "kinesthetic") THEN "bullet_points"
       ELSE IF Contains(style_lower, "auditory") THEN "narrative"
       ELSE "outline"

\* a fault: "some" is missing from the small-quantity words
_infer_flashcard_count_NoSome(message) ==
    LET message_lower == Lower(message)
    IN IF ContainsAny(message_lower, <<"few", "little">>) THEN 5
       ELSE IF ContainsAny(message_lower,
                           <<"many", "lot", "comprehensive", "extensive">>) THEN 15
       ELSE 10

\* a fault: the many-list is tested before the few-list
_infer_flashcard_count_ManyFirst(message) ==
    LET message_lower == Lower(message)
    IN IF ContainsAny(message_lower,
                      <<"many", "lot", "comprehensive", "extensive">>) THEN 15
       ELSE IF ContainsAny(message_lower, <<"few", "some", "little">>) THEN 5
       ELSE 10

_infer_flashcard_count(message) ==
    LET message_lower == Lower(message)
    IN IF ContainsAny(message_lower, <<"few", "some", "little">>) THEN 5
       ELSE IF ContainsAny(message_lower,
                           <<"many", "lot", "comprehensive", "extensive">>) THEN 15
       ELSE 10

EasyKeywords == <<"struggling", "difficult", "hard", "confused">>
HardKeywords == <<"advanced", "expert", "challenging">>

\* a fault: a message that asks for expert material gets the difficulty "expert"
_infer_difficulty_Expert(mastery_level, message) ==
    LET message_lower == Lower(message)
        mastery_lower == Lower(mastery_level)
    IN IF ContainsAny(message_lower, EasyKeywords) THEN "easy"
       ELSE IF ContainsAny(message_lower, HardKeywords) THEN "expert"
       ELSE IF ContainsAny(mastery_lower, <<"level 7", "level 8", "level 9">>)
       THEN "hard"
       ELSE IF ContainsAny(mastery_lower, <<"level 1", "level 2", "level 3">>)
       THEN "easy"
       ELSE "medium"

_infer_difficulty(mastery_level, message) ==
    LET message_lower == Lower(message)
        mastery_lower == Lower(mastery_level)
    IN IF ContainsAny(message_lower, EasyKeywords) THEN "easy"
       ELSE IF ContainsAny(message_lower, HardKeywords) THEN "hard"
       ELSE IF ContainsAny(mastery_lower, <<"level 7", "level 8", "level 9">>) THEN "hard"
       ELSE IF ContainsAny(mastery_lower, <<"level 4", "level 5", "level 6">>) THEN "medium"
       ELSE IF ContainsAny(mastery_lower, <<"level 1", "level 2", "level 3">>) THEN "easy"
       ELSE "medium"

BasicKeywords == <<"basic", "simple", "beginner", "confused">>
ComprehensiveKeywords == <<"advanced", "comprehensive", "detailed">>

\* a fault: the advanced tier starts at level 9
_infer_depth_Tier9(mastery_level, message) ==
    LET message_lower == Lower(message)
        mastery_lower == Lower(mastery_level)
    IN IF ContainsAny(message_lower, BasicKeywords) THEN "basic"
       ELSE IF ContainsAny(message_lower, ComprehensiveKeywords) THEN "comprehensive"
       ELSE IF ContainsAny(mastery_lower, <<"level 9", "level 10">>) THEN "advanced"
       ELSE IF ContainsAny(mastery_lower, <<"level 2", "level 3">>) THEN "basic"
       ELSE "intermediate"

\* a fault: the message keyword "advanced" gives the depth "advanced"
_infer_depth_AdvancedWord(mastery_level, message) ==
    LET message_lower == Lower(message)
        mastery_lower == Lower(mastery_level)
    IN IF ContainsAny(message_lower, BasicKeywords) THEN "basic"
       ELSE IF Contains(message_lower, "advanced") THEN "advanced"
       ELSE IF ContainsAny(message_lower, ComprehensiveKeywords) THEN "comprehensive"
       ELSE IF ContainsAny(mastery_lower, <<"level 8", "level 9", "level 10">>) THEN "advanced"
       ELSE IF ContainsAny(mastery_lower, <<"level 2", "level 3">>) THEN "basic"
       ELSE "intermediate"

_infer_depth(mastery_level, message) ==
    LET message_lower == Lower(message)
        mastery_lower == Lower(mastery_level)
    IN IF ContainsAny(message_lower, BasicKeywords) THEN "basic"
       ELSE IF ContainsAny(message_lower, ComprehensiveKeywords) THEN "comprehensive"
       ELSE IF ContainsAny(mastery_lower, <<"level 8", "level 9", "level 10">>) THEN "advanced"
       ELSE IF ContainsAny(mastery_lower, <<"level 2", "level 3">>) THEN "basic"
       ELSE IF ContainsAny(mastery_lower, <<"level 6", "level 7">>) THEN "intermediate"
       ELSE "intermediate"

\* the base parameters every tool gets
BaseParameters(user_info, chat_history) ==
    [user_info |-> UserInfoDict(user_info),
     chat_history |-> ChatHistoryList(chat_history)]

\* the tool-specific parameters of note_maker
NoteMakerParameters(topic, subject, user_info) ==
    [topic |-> VStr(topic),
     subject |-> VStr(subject),
     note_taking_style |-> VStr(_infer_note_style(user_info.learning_style_summary)),
     include_examples |-> VBool(TRUE),
     include_analogies |->
        VBool(Contains(Lower(user_info.learning_style_summary), "visual"))]

\* a fault: the subject is left out of the flashcard parameters
FlashcardParameters_NoSubject(topic, subject, user_info, current_message) ==
    [topic |-> VStr(topic),
     count |-> VInt(_infer_flashcard_count(current_message)),
     difficulty |->
        VStr(_infer_difficulty(user_info.mastery_level_summary, current_message)),
     include_examples |-> VBool(TRUE)]

\* the tool-specific parameters of flashcard_generator
FlashcardParameters(topic, subject, user_info, current_message) ==
    [topic |-> VStr(topic),
     subject |-> VStr(subject),
     count |-> VInt(_infer_flashcard_count(current_message)),
     difficulty |->
        VStr(_infer_difficulty(user_info.mastery_level_summary, current_message)),
     include_examples |-> VBool(TRUE)]

\* the tool-specific parameters of concept_explainer
ConceptParameters(topic, subject, user_info, current_message) ==
    [concept_to_explain |-> VStr(topic),
     current_topic |-> VStr(subject),
     desired_depth |->
        VStr(_infer_depth(user_info.mastery_level_summary, current_message))]

\* the (extracted, tool_type) tuple extract_parameters returns
extract_parameters(conversation_request) ==
    LET user_info == conversation_request.user_info
        chat_history == conversation_request.chat_history
        current_message == conversation_request.current_message
        base == BaseParameters(user_info, chat_history)
        topic == _extract_topic(current_message, chat_history)
        subject == _extract_subject(current_message, chat_history)
        tool_type == _determine_tool_type(current_message)
        extracted ==
            IF tool_type = "note_maker"
            THEN Update(base, NoteMakerParameters(topic, subject, user_info))
            ELSE IF tool_type = "flashcard_generator"
            THEN Update(base, FlashcardParameters(topic, subject, user_info,
                                                  current_message))
            ELSE IF tool_type = "concept_explainer"
            THEN Update(base, ConceptParameters(topic, subject, user_info,
                                                current_message))
            ELSE base
    IN [parameters |-> extracted, tool_type |-> tool_type]

\* get_available_tools(): list(tool_schemas.keys()) in insertion order
ToolNames == <<"note_maker", "flashcard_generator", "concept_explainer">>

get_available_tools(schemas) ==
    [available_tools |-> SelectSeq(ToolNames, LAMBDA n : n \in DOMAIN schemas),
     tool_schemas |-> schemas]

----------------------------------------------------------------------------
(* str() and repr() of a value, as an f-string formats it *)

\* repr(s) of a str: single quotes, double quotes when s holds a single quote
StrRepr(s) == IF Contains(s, "'") THEN "\"" \o s \o "\"" ELSE "'" \o s \o "'"

RECURSIVE ReprItems(_, _)
\* ", ".join(repr(x) for x in l) for a list of strings, ints, bools and None
ReprItems(l, i) ==
    IF i > Len(l) THEN ""
    ELSE LET x == l[i]
             r == CASE x.t = "str" -> StrRepr(x.v)
                    [] x.t = "int" -> IntStr(x.v)
                    [] x.t = "bool" -> (IF x.v THEN "True" ELSE "False")
                    [] x.t = "null" -> "None"
         IN IF i = Len(l) THEN r ELSE r \o ", " \o ReprItems(l, i + 1)

\* str(x), which "{x}" in an f-string formats
PyStr(x) ==
    CASE x.t = "str" -> x.v
      [] x.t = "int" -> IntStr(x.v)
      [] x.t = "bool" -> (IF x.v THEN "True" ELSE "False")
      [] x.t = "null" -> "None"
      [] x.t = "list" -> "[" \o ReprItems(x.v, 1) \o "]"

\* bool(x), which "if x" tests
Truthy(x) ==
    CASE x.t = "str" -> x.v # ""
      [] x.t = "int" -> x.v # 0
      [] x.t = "bool" -> x.v
      [] x.t = "null" -> FALSE
      [] x.t = "list" -> Len(x.v) > 0
      [] x.t = "dict" -> DOMAIN x.v # {}

\* type(x).__name__
TypeName(x) ==
    CASE x.t = "str" -> "str"
      [] x.t = "int" -> "int"
      [] x.t = "bool" -> "bool"
      [] x.t = "null" -> "NoneType"
      [] x.t = "list" -> "list"
      [] x.t = "dict" -> "dict"

\* what a call gives back: a value it returns, or an exception it raises
Returned(value) == [raised |-> FALSE, value |-> value]
Raised(exc, message) == [raised |-> TRUE, exc |-> exc, message |-> message]

\* range(count): the number of iterations, or the TypeError range() raises for
\* a count that is no integer (a bool is one: True is 1)
Range(count) ==
    CASE count.t = "int" -> Returned(IF count.v > 0 THEN count.v ELSE 0)
      [] count.t = "bool" -> Returned(IF count.v THEN 1 ELSE 0)
      [] OTHER -> Raised("TypeError", "'" \o TypeName(count)
                            \o "' object cannot be interpreted as an integer")

\* str(e) of HTTPException(status_code=..., detail=...). The class comes from
\* the installed Starlette: one that defines __str__ gives "status: detail";
\* one that does not gives str() of an exception built with no positional
\* argument, the empty string
HTTPExceptionStr(status_code, detail) ==
    IF http_exception_str THEN IntStr(status_code) \o ": " \o detail ELSE ""

----------------------------------------------------------------------------
(* main.py: class TutorOrchestrator, the extractor the endpoints use *)

Main_educational_keywords ==
    <<"math", "calculus", "algebra", "geometry", "statistics",
      "science", "biology", "chemistry", "physics", "environmental",
      "history", "literature", "english", "writing", "reading",
      "programming", "computer science", "coding">>

Main_subject_mapping ==
    <<<<"math", "Mathematics">>, <<"calculus", "Mathematics">>,
      <<"algebra", "Mathematics">>, <<"science", "Science">>,
      <<"biology", "Biology">>, <<"chemistry", "Chemistry">>,
      <<"physics", "Physics">>, <<"history", "History">>,
      <<"english", "English">>, <<"literature", "English">>>>

\* the topic: a str, or the list message.split()[:3] when no keyword occurs
Main_extract_topic(message, chat_history) ==
    LET hit == FirstHit(Main_educational_keywords, Lower(message))
        words == Split(message)
    IN IF hit # 0 THEN VStr(Title(Main_educational_keywords[hit]))
       ELSE IF Len(words) > 0
            THEN VList([i \in 1..Len(Take(words, 3)) |-> VStr(words[i])])
            ELSE VStr("General Topic")

Main_extract_subject(message, chat_history) ==
    LET keys == [j \in 1..Len(Main_subject_mapping) |-> Main_subject_mapping[j][1]]
        hit == FirstHit(keys, Lower(message))
    IN IF hit # 0 THEN Main_subject_mapping[hit][2] ELSE "General Education"

\* a fault: a quiz is given a tool identifier of its own, outside the three
Main_determine_tool_type_QuizMaker(message) ==
    LET message_lower == Lower(message)
    IN IF ContainsAny(message_lower, <<"note", "notes", "summary", "outline">>)
       THEN "note_maker"
       ELSE IF Contains(message_lower, "quiz")
       THEN "quiz_maker"
       ELSE IF ContainsAny(message_lower,
                           <<"flashcard", "quiz", "test", "practice", "review">>)
       THEN "flashcard_generator"
       ELSE "concept_explainer"

Main_determine_tool_type(message) ==
    LET message_lower == Lower(message)
    IN IF ContainsAny(message_lower, <<"note", "notes", "summary", "outline">>)
       THEN "note_maker"
       ELSE IF ContainsAny(message_lower,
                           <<"flashcard", "quiz", "test", "practice", "review">>)
       THEN "flashcard_generator"
       ELSE IF ContainsAny(message_lower,
                           <<"explain", "understand", "concept", "how", "what", "why">>)
       THEN "concept_explainer"
       ELSE "concept_explainer"

Main_infer_note_style(learning_style) ==
    IF Contains(Lower(learning_style), "visual") THEN "structured"
    ELSE IF Contains(Lower(learning_style), "kinesthetic") THEN "bullet_points"
    ELSE IF Contains(Lower(learning_style), "auditory") THEN "narrative"
    ELSE "outline"

Main_infer_flashcard_count(message) ==
    IF Contains(Lower(message), "few") \/ Contains(Lower(message), "some") THEN 5
    ELSE IF Contains(Lower(message), "many") \/ Contains(Lower(message), "lot") THEN 15
    ELSE 10

Main_infer_difficulty(mastery_level, message) ==
    IF Contains(Lower(message), "struggling") \/ Contains(Lower(message), "difficult")
    THEN "easy"
    ELSE IF Contains(Lower(message), "advanced") \/ Contains(Lower(message), "expert")
    THEN "hard"
    ELSE IF Contains(Lower(mastery_level), "level 7")
            \/ Contains(Lower(mastery_level), "level 8")
    THEN "hard"
    ELSE IF Contains(Lower(mastery_level), "level 4")
            \/ Contains(Lower(mastery_level), "level 5")
    THEN "medium"
    ELSE "medium"

Main_infer_depth(mastery_level, message) ==
    IF Contains(Lower(message), "basic") \/ Contains(Lower(message), "simple")
    THEN "basic"
    ELSE IF Contains(Lower(message), "advanced")
            \/ Contains(Lower(message), "comprehensive")
    THEN "comprehensive"
    ELSE IF Contains(Lower(mastery_level), "level 8")
            \/ Contains(Lower(mastery_level), "level 9")
    THEN "advanced"
    ELSE IF Contains(Lower(mastery_level), "level 2")
            \/ Contains(Lower(mastery_level), "level 3")
    THEN "basic"
    ELSE "intermediate"

Main_extract_parameters(conversation_request) ==
    LET user_info == conversation_request.user_info
        chat_history == conversation_request.chat_history
        current_message == conversation_request.current_message
        base == [user_info |-> UserInfoDict(user_info),
                 chat_history |-> ChatHistoryList(chat_history)]
        topic == Main_extract_topic(current_message, chat_history)
        subject == Main_extract_subject(current_message, chat_history)
        tool_type == Main_determine_tool_type(current_message)
        extracted ==
            IF tool_type = "note_maker" THEN
                Update(base,
                    [topic |-> topic,
                     subject |-> VStr(subject),
                     note_taking_style |->
                        VStr(Main_infer_note_style(user_info.learning_style_summary)),
                     include_examples |-> VBool(TRUE),
                     include_analogies |->
                        VBool(Contains(Lower(user_info.learning_style_summary), "visual"))])
            ELSE IF tool_type = "flashcard_generator" THEN
                Update(base,
                    [topic |-> topic,
                     subject |-> VStr(subject),
                     count |-> VInt(Main_infer_flashcard_count(current_message)),
                     difficulty |->
                        VStr(Main_infer_difficulty(user_info.mastery_level_summary,
                                                   current_message)),
                     include_examples |-> VBool(TRUE)])
            ELSE IF tool_type = "concept_explainer" THEN
                Update(base,
                    [concept_to_explain |-> topic,
                     current_topic |-> VStr(subject),
                     desired_depth |->
                        VStr(Main_infer_depth(user_info.mastery_level_summary,
                                              current_message))])
            ELSE base
    IN [parameters |-> extracted, tool_type |-> tool_type]

----------------------------------------------------------------------------
(* main.py: class MockEducationalTools *)

Mock_note_maker(parameters) ==
    Returned(
        [topic |-> Get(parameters, "topic", VStr("General Topic")),
         title |-> "Notes on " \o PyStr(Get(parameters, "topic", VStr("General Topic"))),
         summary |-> "Comprehensive notes covering "
                     \o PyStr(Get(parameters, "topic", VStr("the topic")))
                     \o " with examples and key concepts.",
         note_sections |->
            <<[title |-> "Introduction",
               content |-> "Introduction to "
                           \o PyStr(Get(parameters, "topic", VStr("the topic"))),
               key_points |-> <<"Key concept 1", "Key concept 2">>,
               examples |-> <<"Example 1", "Example 2">>,
               analogies |-> IF Truthy(Get(parameters, "include_analogies", VNull))
                             THEN <<"Analogy 1">> ELSE <<>>]>>,
         key_concepts |-> <<"Concept 1", "Concept 2", "Concept 3">>,
         practice_suggestions |-> <<"Practice exercise 1", "Practice exercise 2">>,
         note_taking_style |-> Get(parameters, "note_taking_style", VStr("outline"))])

Mock_flashcard_generator(parameters) ==
    LET topic == Get(parameters, "topic", VStr("General Topic"))
        count == Get(parameters, "count", VInt(5))
        n == Range(count)
    IN IF n.raised THEN n
       ELSE Returned(
        [flashcards |->
            [i \in 1..n.value |->
                [title |-> "Question " \o IntStr(i),
                 question |-> "What is the main concept of " \o PyStr(topic) \o "?",
                 answer |-> "The main concept of " \o PyStr(topic) \o " is...",
                 example |-> "Example: " \o PyStr(topic) \o " in practice..."]],
         topic |-> topic,
         adaptation_details |-> "Adapted for "
                \o PyStr(Get(parameters, "difficulty", VStr("medium"))) \o " difficulty",
         difficulty |-> Get(parameters, "difficulty", VStr("medium"))])

Mock_concept_explainer(parameters) ==
    LET concept == PyStr(Get(parameters, "concept_to_explain", VStr("General Concept")))
        depth == PyStr(Get(parameters, "desired_depth", VStr("intermediate")))
    IN Returned(
        [explanation |-> "This is a " \o depth \o " explanation of " \o concept
                \o ". It covers the fundamental principles and applications.",
         examples |-> <<"Example 1: " \o concept \o " in real-world scenario",
                        "Example 2: " \o concept \o " in academic context">>,
         related_concepts |-> <<"Related concept 1", "Related concept 2">>,
         visual_aids |-> <<"Diagram suggestion", "Chart recommendation">>,
         practice_questions |-> <<"How does " \o concept \o " work?",
                                  "What are the applications of " \o concept \o "?">>,
         source_references |-> <<"Reference 1", "Reference 2">>])

----------------------------------------------------------------------------
(* educational_tools.py: class EducationalTools *)

note_maker(parameters) ==
    LET topic == PyStr(Get(parameters, "topic", VStr("General Topic")))
        subject == PyStr(Get(parameters, "subject", VStr("General Education")))
        note_style == Get(parameters, "note_taking_style", VStr("outline"))
        include_examples == Truthy(Get(parameters, "include_examples", VBool(TRUE)))
        include_analogies == Truthy(Get(parameters, "include_analogies", VBool(FALSE)))
        sections ==
            IF note_style = VStr("structured") THEN
                <<[title |-> "Introduction",
                   content |-> "Introduction to " \o topic \o " in " \o subject,
                   key_points |-> <<"Key concept 1 of " \o topic,
                                    "Key concept 2 of " \o topic>>,
                   examples |-> IF include_examples
                                THEN <<"Example 1: " \o topic \o " in practice",
                                       "Example 2: " \o topic \o " application">>
                                ELSE <<>>,
                   analogies |-> IF include_analogies
                                 THEN <<"Think of " \o topic \o " like...">> ELSE <<>>],
                  [title |-> "Main Concepts",
                   content |-> "Core concepts of " \o topic,
                   key_points |-> <<"Concept A: " \o topic \o " fundamentals",
                                    "Concept B: " \o topic \o " applications">>,
                   examples |-> IF include_examples
                                THEN <<"Real-world example of " \o topic>> ELSE <<>>,
                   analogies |-> IF include_analogies
                                 THEN <<topic \o " is similar to...">> ELSE <<>>]>>
            ELSE IF note_style = VStr("bullet_points") THEN
                \* "*" stands for the bullet character U+2022 of the source
                <<[title |-> topic \o " Overview",
                   content |-> "Key points about " \o topic,
                   key_points |-> <<"* Point 1: " \o topic \o " basics",
                                    "* Point 2: " \o topic \o " importance">>,
                   examples |-> IF include_examples
                                THEN <<"* Example: " \o topic \o " in action">> ELSE <<>>,
                   analogies |-> IF include_analogies
                                 THEN <<"* Analogy: " \o topic \o " is like...">>
                                 ELSE <<>>]>>
            ELSE
                <<[title |-> "Understanding " \o topic,
                   content |-> "A comprehensive look at " \o topic \o " in " \o subject,
                   key_points |-> <<"Main idea: " \o topic \o " fundamentals",
                                    "Application: " \o topic \o " in practice">>,
                   examples |-> IF include_examples
                                THEN <<"Example: " \o topic \o " case study">> ELSE <<>>,
                   analogies |-> IF include_analogies
                                 THEN <<"Analogy: " \o topic \o " comparison">>
                                 ELSE <<>>]>>
    IN Returned(
        [topic |-> Get(parameters, "topic", VStr("General Topic")),
         title |-> "Notes on " \o topic,
         summary |-> "Comprehensive notes covering " \o topic
                     \o " with examples and key concepts.",
         note_sections |-> sections,
         key_concepts |-> <<"Concept 1: " \o topic \o " basics",
                            "Concept 2: " \o topic \o " applications",
                            "Concept 3: " \o topic \o " importance">>,
         connections_to_prior_learning |->
            <<"Builds on previous " \o subject \o " knowledge",
              "Connects to " \o topic \o " fundamentals">>,
         visual_elements |-> <<[type |-> "diagram",
                                description |-> topic \o " process flow"]>>,
         practice_suggestions |-> <<"Practice exercise 1: " \o topic \o " basics",
                                    "Practice exercise 2: " \o topic \o " application">>,
         source_references |-> <<"Reference 1: " \o topic \o " textbook",
                                 "Reference 2: " \o topic \o " online resources">>,
         note_taking_style |-> note_style])

\* a fault: every difficulty that is not easy is given the hard text
Flashcard_HardByDefault(index, topic, subject, difficulty, include_examples) ==
    IF difficulty = VStr("easy") THEN
        [title |-> "Question " \o IntStr(index),
         question |-> "What is the basic concept of " \o topic \o "?",
         answer |-> "The basic concept of " \o topic \o " is fundamental understanding.",
         example |-> IF include_examples
                     THEN VStr("Example: " \o topic \o " in simple terms") ELSE VNull]
    ELSE
        [title |-> "Question " \o IntStr(index),
         question |-> "Explain the advanced applications of " \o topic
                      \o " in " \o subject \o ".",
         answer |-> "Advanced applications of " \o topic
                    \o " include complex scenarios and real-world implementations.",
         example |-> IF include_examples
                     THEN VStr("Advanced example: " \o topic \o " in professional context")
                     ELSE VNull]

\* one card of flashcard_generator's loop, for i = index - 1
Flashcard(index, topic, subject, difficulty, include_examples) ==
    IF difficulty = VStr("easy") THEN
        [title |-> "Question " \o IntStr(index),
         question |-> "What is the basic concept of " \o topic \o "?",
         answer |-> "The basic concept of " \o topic \o " is fundamental understanding.",
         example |-> IF include_examples
                     THEN VStr("Example: " \o topic \o " in simple terms") ELSE VNull]
    ELSE IF difficulty = VStr("hard") THEN
        [title |-> "Question " \o IntStr(index),
         question |-> "Explain the advanced applications of " \o topic
                      \o " in " \o subject \o ".",
         answer |-> "Advanced applications of " \o topic
                    \o " include complex scenarios and real-world implementations.",
         example |-> IF include_examples
                     THEN VStr("Advanced example: " \o topic \o " in professional context")
                     ELSE VNull]
    ELSE
        [title |-> "Question " \o IntStr(index),
         question |-> "What are the key principles of " \o topic \o "?",
         answer |-> "The key principles of " \o topic
                    \o " include core concepts and practical applications.",
         example |-> IF include_examples
                     THEN VStr("Example: " \o topic \o " in practice") ELSE VNull]

flashcard_generator(parameters) ==
    LET topic == PyStr(Get(parameters, "topic", VStr("General Topic")))
        count == Get(parameters, "count", VInt(5))
        difficulty == Get(parameters, "difficulty", VStr("medium"))
        subject == PyStr(Get(parameters, "subject", VStr("General Education")))
        include_examples == Truthy(Get(parameters, "include_examples", VBool(TRUE)))
        n == Range(count)
    IN IF n.raised THEN n
       ELSE Returned(
        [flashcards |->
            [i \in 1..n.value |->
                Flashcard(i, topic, subject, difficulty, include_examples)],
         topic |-> Get(parameters, "topic", VStr("General Topic")),
         adaptation_details |-> "Adapted for " \o PyStr(difficulty)
                \o " difficulty level based on student profile",
         difficulty |-> difficulty])

concept_explainer(parameters) ==
    LET concept == PyStr(Get(parameters, "concept_to_explain", VStr("General Concept")))
        depth == Get(parameters, "desired_depth", VStr("intermediate"))
        body ==
            IF depth = VStr("basic") THEN
                [explanation |-> "This is a basic explanation of " \o concept
                    \o ". It covers the fundamental principles in simple terms.",
                 examples |-> <<"Simple example: " \o concept \o " in everyday life",
                                "Basic example: " \o concept \o " fundamentals">>,
                 practice_questions |-> <<"What is " \o concept \o "?",
                                          "How does " \o concept \o " work?">>]
            ELSE IF depth = VStr("advanced") THEN
                [explanation |-> "This is an advanced explanation of " \o concept
                    \o ". It covers complex principles, applications, and theoretical foundations.",
                 examples |-> <<"Advanced example: " \o concept \o " in professional context",
                                "Complex example: " \o concept \o " in research">>,
                 practice_questions |-> <<"Analyze the implications of " \o concept,
                                          "Evaluate the applications of " \o concept>>]
            ELSE IF depth = VStr("comprehensive") THEN
                [explanation |-> "This is a comprehensive explanation of " \o concept
                    \o ". It covers all aspects from basic principles to advanced applications and real-world implications.",
                 examples |-> <<"Basic example: " \o concept \o " fundamentals",
                                "Advanced example: " \o concept \o " in practice",
                                "Real-world example: " \o concept \o " applications">>,
                 practice_questions |-> <<"Explain " \o concept \o " from multiple perspectives",
                                          "Compare " \o concept \o " with related concepts">>]
            ELSE
                [explanation |-> "This is an intermediate explanation of " \o concept
                    \o ". It covers the main principles and practical applications.",
                 examples |-> <<"Example 1: " \o concept \o " in practice",
                                "Example 2: " \o concept \o " applications">>,
                 practice_questions |-> <<"How does " \o concept \o " work?",
                                          "What are the applications of " \o concept \o "?">>]
    IN Returned(
        [explanation |-> body.explanation,
         examples |-> body.examples,
         related_concepts |-> <<"Related concept 1 to " \o concept,
                                "Related concept 2 to " \o concept>>,
         visual_aids |-> <<"Diagram: " \o concept \o " process flow",
                           "Chart: " \o concept \o " relationships">>,
         practice_questions |-> body.practice_questions,
         source_references |-> <<"Reference 1: " \o concept \o " textbook",
                                 "Reference 2: " \o concept \o " online resources">>])

\* EducationalTools.call_tool: the generator's return value, or the ValueError raised
call_tool(tool_name, parameters) ==
    IF tool_name = "note_maker" THEN note_maker(parameters)
    ELSE IF tool_name = "flashcard_generator" THEN flashcard_generator(parameters)
    ELSE IF tool_name = "concept_explainer" THEN concept_explainer(parameters)
    ELSE Raised("ValueError", "Unknown tool: " \o tool_name)

get_supported_tools == <<"note_maker", "flashcard_generator", "concept_explainer">>

\* utils.validate_parameters
validate_parameters(parameters, required_fields) ==
    LET missing_fields ==
            SelectSeq(required_fields, LAMBDA field : field \notin DOMAIN parameters)
    IN IF Len(missing_fields) > 0 THEN FALSE ELSE TRUE

\* text[:n]: the first n characters, or all but the last -n for a negative n
Prefix(text, n) ==
    LET stop == IF n >= 0 THEN (IF n < Len(text) THEN n ELSE Len(text))
                ELSE (IF Len(text) + n > 0 THEN Len(text) + n ELSE 0)
    IN SubSeq(text, 1, stop)

RECURSIVE LStrip(_)
LStrip(text) ==
    IF Len(text) > 0 /\ IsSpace(CharAt(text, 1))
    THEN LStrip(SubSeq(text, 2, Len(text))) ELSE text

RECURSIVE RStrip(_)
RStrip(text) ==
    IF Len(text) > 0 /\ IsSpace(CharAt(text, Len(text)))
    THEN RStrip(SubSeq(text, 1, Len(text) - 1)) ELSE text

\* text.strip()
Strip(text) == RStrip(LStrip(text))

\* utils.sanitize_input
sanitize_input(text, max_length) ==
    IF text = "" THEN ""
    ELSE Strip(IF Len(text) > max_length
               THEN Prefix(text, max_length) \o "..." ELSE text)

----------------------------------------------------------------------------
(* main.py: the endpoints *)

ToolResponse(success, tool_name, response_data, error_message) ==
    [success |-> success, tool_name |-> tool_name,
     response_data |-> response_data, error_message |-> error_message]

\* the empty dict {}
EmptyDict == <<>>

\* a fault: the endpoint keeps the tool of the first listing served and, once
\* there is one, answers every snapshot with the first tool listed
orchestrate_conversation_Remembering(conversation_request) ==
    LET e == Main_extract_parameters(conversation_request)
        parameters == e.parameters
        tool_type == IF listed = None THEN e.tool_type
                     ELSE listed.available_tools[1]
        call ==
            IF tool_type = "note_maker" THEN Mock_note_maker(parameters)
            ELSE IF tool_type = "flashcard_generator"
            THEN Mock_flashcard_generator(parameters)
            ELSE IF tool_type = "concept_explainer"
            THEN Mock_concept_explainer(parameters)
            ELSE Raised("HTTPException",
                        HTTPExceptionStr(400, "Unknown tool type: " \o tool_type))
    IN IF call.raised
       THEN ToolResponse(FALSE, "unknown", EmptyDict, VStr(call.message))
       ELSE ToolResponse(TRUE, tool_type, call.value, VNull)

\* POST /api/orchestrate
orchestrate_conversation(conversation_request) ==
    LET e == Main_extract_parameters(conversation_request)
        parameters == e.parameters
        tool_type == e.tool_type
        call ==
            IF tool_type = "note_maker" THEN Mock_note_maker(parameters)
            ELSE IF tool_type = "flashcard_generator"
            THEN Mock_flashcard_generator(parameters)
            ELSE IF tool_type = "concept_explainer"
            THEN Mock_concept_explainer(parameters)
            ELSE Raised("HTTPException",
                        HTTPExceptionStr(400, "Unknown tool type: " \o tool_type))
    IN IF call.raised
       THEN ToolResponse(FALSE, "unknown", EmptyDict, VStr(call.message))
       ELSE ToolResponse(TRUE, tool_type, call.value, VNull)

\* a fault: the endpoint dispatches to the generators of educational_tools.py
call_tool_directly_RealTools(tool_name, parameters) ==
    LET call == call_tool(tool_name, parameters)
    IN IF call.raised
       THEN ToolResponse(FALSE, tool_name, EmptyDict, VStr(call.message))
       ELSE ToolResponse(TRUE, tool_name, call.value, VNull)

\* a fault: no try/except around the dispatch, the exception leaves the endpoint
call_tool_directly_NoCatch(tool_name, parameters) ==
    LET call ==
            IF tool_name = "note_maker" THEN Mock_note_maker(parameters)
            ELSE IF tool_name = "flashcard_generator"
            THEN Mock_flashcard_generator(parameters)
            ELSE IF tool_name = "concept_explainer"
            THEN Mock_concept_explainer(parameters)
            ELSE Raised("HTTPException",
                        HTTPExceptionStr(404, "Tool '" \o tool_name \o "' not found"))
    IN IF call.raised THEN call
       ELSE ToolResponse(TRUE, tool_name, call.value, VNull)

\* a fault: the dispatch table hands concept_explainer to the note generator
call_tool_directly_Swapped(tool_name, parameters) ==
    LET call ==
            IF tool_name = "note_maker" THEN Mock_note_maker(parameters)
            ELSE IF tool_name = "flashcard_generator"
            THEN Mock_flashcard_generator(parameters)
            ELSE IF tool_name = "concept_explainer"
            THEN Mock_note_maker(parameters)
            ELSE Raised("HTTPException",
                        HTTPExceptionStr(404, "Tool '" \o tool_name \o "' not found"))
    IN IF call.raised
       THEN ToolResponse(FALSE, tool_name, EmptyDict, VStr(call.message))
       ELSE ToolResponse(TRUE, tool_name, call.value, VNull)

\* POST /api/tools/{tool_name}
call_tool_directly(tool_name, parameters) ==
    LET call ==
            IF tool_name = "note_maker" THEN Mock_note_maker(parameters)
            ELSE IF tool_name = "flashcard_generator"
            THEN Mock_flashcard_generator(parameters)
            ELSE IF tool_name = "concept_explainer"
            THEN Mock_concept_explainer(parameters)
            ELSE Raised("HTTPException",
                        HTTPExceptionStr(404, "Tool '" \o tool_name \o "' not found"))
    IN IF call.raised
       THEN ToolResponse(FALSE, tool_name, EmptyDict, VStr(call.message))
       ELSE ToolResponse(TRUE, tool_name, call.value, VNull)

\* a fault: the names are handed out as an iterator that the first listing
\* uses up, so a later listing has none
list_available_tools_Once(schemas) ==
    [available_tools |->
        IF listed = None
        THEN SelectSeq(ToolNames, LAMBDA n : n \in DOMAIN schemas) ELSE <<>>,
     tool_schemas |-> schemas]

\* GET /api/tools
list_available_tools(schemas) ==
    [available_tools |-> SelectSeq(ToolNames, LAMBDA n : n \in DOMAIN schemas),
     tool_schemas |-> schemas]

----------------------------------------------------------------------------
(* config.py: class Config *)

MAX_FLASHCARD_COUNT == 20
MIN_FLASHCARD_COUNT == 1
SUPPORTED_NOTE_STYLES == <<"outline", "bullet_points", "narrative", "structured">>
SUPPORTED_DIFFICULTIES == <<"easy", "medium", "hard">>
SUPPORTED_DEPTHS == <<"basic", "intermediate", "advanced", "comprehensive">>

----------------------------------------------------------------------------
(* The inputs the calls are made with *)

MaxWords == 2
MaxHistory == 2

Vocabulary == {"notes", "flashcards"}

\* the messages of up to MaxWords words of the vocabulary, one space apart
Phrases ==
    UNION {{Join(" ", ws) : ws \in [1..n -> Vocabulary]} : n \in 0..MaxWords}

ScenarioMessages ==
    {"I need comprehensive notes on photosynthesis for my biology class",
     "I need some practice flashcards for algebra equations",
     "Can you explain photosynthesis in simple terms?",
     "please help me now",
     "help me",
     "computer science",
     "the latest world war",
     "some hard flashcards",
     "many advanced flashcards",
     "a comprehensive quiz",
     "Explain it",
     "detailed flashcards please",
     "simple",
     "simple notes",
     "some comprehensive flashcards",
     "advanced physics"}

Messages == Phrases \cup ScenarioMessages

ChatTurns ==
    {[role |-> "user", content |-> "My Biology exam"],
     [role |-> "assistant", content |-> "Which topics?"]}

\* a history of three turns, all of which the topic scan reads and the last
\* two of which the subject scan reads: its first turn names a keyword
ThreeTurnHistory ==
    <<[role |-> "user", content |-> "My Biology exam"],
      [role |-> "assistant", content |-> "Which topics?"],
      [role |-> "assistant", content |-> "Which topics?"]>>

\* a history longer than the three turns the topic scan reads, and longer than
\* the two turns the subject scan reads: its first turn names a keyword
LongHistory ==
    <<[role |-> "user", content |-> "My Biology exam"],
      [role |-> "assistant", content |-> "Which topics?"],
      [role |-> "assistant", content |-> "Which topics?"],
      [role |-> "assistant", content |-> "Which topics?"]>>

ChatHistories ==
    UNION {[1..n -> ChatTurns] : n \in 0..MaxHistory}
        \cup {ThreeTurnHistory, LongHistory}

UserInfoOf(style, mastery) ==
    [user_id |-> "student123", name |-> "Alice", grade_level |-> "10",
     learning_style_summary |-> style,
     emotional_state_summary |-> "Focused",
     mastery_level_summary |-> mastery]

UserInfos ==
    {UserInfoOf("", ""),
     UserInfoOf("Visual learner", "Level 6: Good understanding"),
     UserInfoOf("Kinesthetic learner", "Level 4"),
     UserInfoOf("Auditory learner", "Level 3: Building foundational knowledge"),
     UserInfoOf("auditory and visual", "Mastery Level 8"),
     UserInfoOf("", "Level 10")}

Snapshots ==
    {[user_info |-> u, chat_history |-> h, current_message |-> m] :
        u \in UserInfos, h \in ChatHistories, m \in Messages}

\* a parameter left out of a mapping
Absent == [t |-> "absent", v |-> "absent"]

\* the mapping of the parameters of r that are not left out
Present(r) == [k \in {k \in DOMAIN r : r[k] # Absent} |-> r[k]]

MaxCount == 2

\* the counts a direct call supplies: none, no integer, and integers from below
\* MIN_FLASHCARD_COUNT to above MAX_FLASHCARD_COUNT
CountValues ==
    {Absent, VNull, VStr("3"), VBool(TRUE), VInt(MAX_FLASHCARD_COUNT + 1)}
        \cup {VInt(n) : n \in (MIN_FLASHCARD_COUNT - 2)..MaxCount}

Envelopes ==
    {EmptyDict,
     [user_info |-> UserInfoDict(UserInfoOf("Visual learner", "Level 5")),
      chat_history |-> VList(<<>>)]}

NoteMakerDirect ==
    {Update(env, Present([topic |-> a, subject |-> b, note_taking_style |-> c,
                          include_examples |-> d, include_analogies |-> e])) :
        env \in Envelopes,
        a \in {Absent, VNull, VStr("World War II")},
        b \in {Absent, VStr("History")},
        c \in {Absent, VStr("structured"), VStr("bullet_points"), VStr("narrative")},
        d \in {Absent, VBool(FALSE)},
        e \in {Absent, VBool(TRUE)}}

FlashcardDirect ==
    {Present([user_info |-> u, topic |-> a, subject |-> b, count |-> c,
              difficulty |-> d, include_examples |-> e]) :
        u \in {UserInfoDict(UserInfoOf("Visual learner", "Level 5"))},
        a \in {Absent, VNull, VStr("World War II")},
        b \in {Absent, VStr("History")},
        c \in CountValues,
        d \in {Absent, VStr("easy"), VStr("hard"), VStr("expert")},
        e \in {Absent, VBool(FALSE)}}

ConceptDirect ==
    {Update(env, Present([concept_to_explain |-> a, current_topic |-> b,
                          desired_depth |-> c])) :
        env \in Envelopes,
        a \in {Absent, VStr("Gravity")},
        b \in {Absent, VStr("Physics")},
        c \in {Absent, VNull, VStr("basic"), VStr("advanced"), VStr("comprehensive")}}

DirectParameters == NoteMakerDirect \cup FlashcardDirect \cup ConceptDirect

\* the tool names a direct call gives: the three tools, and names of no tool
ToolIds ==
    {"note_maker", "flashcard_generator", "concept_explainer",
     "quiz_maker", "Note_Maker"}

\* the direct calls: each tool with the parameter mappings made for it, and
\* every name, of a tool or of none, with the mappings made for
\* concept_explainer
DirectCalls ==
    {<<"note_maker", p>> : p \in NoteMakerDirect}
        \cup {<<"flashcard_generator", p>> : p \in FlashcardDirect}
        \cup (ToolIds \X ConceptDirect)

\* the texts given to sanitize_input: empty, short, long, and with blanks at
\* the ends and at the place of the cut
SanitizeTexts ==
    {"", "ab", "hello world", "  hi  ", "abc   def", "   "}

\* the max_length values given to it, the default among them
MaxLengths == {-1, 0, 1, 2, 3, 4, 1000}

----------------------------------------------------------------------------
(* The calls *)

Init ==
    /\ tool_schemas = ToolSchemas
    /\ http_exception_str \in BOOLEAN
    /\ listed = None
    /\ pc = "idle"
    /\ op = "none"
    /\ snapshot = None
    /\ tool_request = None
    /\ response = None

\* a caller runs TutorOrchestrator.extract_parameters of orchestrator.py
ExtractParameters ==
    /\ pc = "idle"
    /\ \E s \in Snapshots :
        /\ snapshot' = s
        /\ response' = extract_parameters(s)
    /\ op' = "extract_parameters"
    /\ pc' = "responded"
    /\ UNCHANGED <<tool_schemas, http_exception_str, listed, tool_request>>

\* a caller runs TutorOrchestrator.get_available_tools of orchestrator.py
GetAvailableTools ==
    /\ pc = "idle"
    /\ response' = get_available_tools(tool_schemas)
    /\ op' = "get_available_tools"
    /\ pc' = "responded"
    /\ UNCHANGED <<tool_schemas, http_exception_str, listed, snapshot, tool_request>>

\* POST /api/orchestrate: orchestrate(snapshot)
Orchestrate ==
    /\ pc = "idle"
    /\ \E s \in Snapshots :
        /\ snapshot' = s
        /\ response' = orchestrate_conversation(s)
    /\ op' = "orchestrate"
    /\ pc' = "responded"
    /\ UNCHANGED <<tool_schemas, http_exception_str, listed, tool_request>>

\* POST /api/tools/{tool_name}: invoke_tool(tool_id, parameters)
CallToolDirectly ==
    /\ pc = "idle"
    /\ \E call \in DirectCalls :
        /\ tool_request' = [tool_name |-> call[1], parameters |-> call[2]]
        /\ response' = call_tool_directly(call[1], call[2])
    /\ op' = "invoke_tool"
    /\ pc' = "responded"
    /\ UNCHANGED <<tool_schemas, http_exception_str, listed, snapshot>>

\* GET /api/tools: list_tools()
ListAvailableTools ==
    /\ pc = "idle"
    /\ response' = list_available_tools(tool_schemas)
    /\ op' = "list_tools"
    /\ pc' = "responded"
    /\ UNCHANGED <<tool_schemas, http_exception_str, listed, snapshot, tool_request>>

\* a caller runs EducationalTools.call_tool of educational_tools.py
CallTool ==
    /\ pc = "idle"
    /\ \E call \in DirectCalls :
        /\ tool_request' = [tool_name |-> call[1], parameters |-> call[2]]
        /\ response' = call_tool(call[1], call[2])
    /\ op' = "call_tool"
    /\ pc' = "responded"
    /\ UNCHANGED <<tool_schemas, http_exception_str, listed, snapshot>>

\* a caller runs utils.sanitize_input(text, max_length)
SanitizeInput ==
    /\ pc = "idle"
    /\ \E text \in SanitizeTexts, max_length \in MaxLengths :
        /\ tool_request' = [text |-> text, max_length |-> max_length]
        /\ response' = sanitize_input(text, max_length)
    /\ op' = "sanitize_input"
    /\ pc' = "responded"
    /\ UNCHANGED <<tool_schemas, http_exception_str, listed, snapshot>>

\* the caller has its answer; what the call held is dropped, and the
\* orchestrator stays as it is for the next call
Return ==
    /\ pc = "responded"
    /\ pc' = "idle"
    /\ op' = "none"
    /\ snapshot' = None
    /\ tool_request' = None
    /\ response' = None
    /\ listed' = IF op = "list_tools" /\ listed = None THEN response ELSE listed
    /\ UNCHANGED <<tool_schemas, http_exception_str>>

Next ==
    \/ ExtractParameters
    \/ GetAvailableTools
    \/ Orchestrate
    \/ CallToolDirectly
    \/ ListAvailableTools
    \/ CallTool
    \/ SanitizeInput
    \/ Return

Spec == Init /\ [][Next]_vars

----------------------------------------------------------------------------
(* What the calls read and return, by name *)

Message == snapshot.current_message
History == snapshot.chat_history
LearningStyle == snapshot.user_info.learning_style_summary
Mastery == snapshot.user_info.mastery_level_summary

\* the fields of a ToolResponse
ToolResponseFields == {"success", "tool_name", "response_data", "error_message"}

\* the three tools of the closed set
RecognizedTools == {"note_maker", "flashcard_generator", "concept_explainer"}

----------------------------------------------------------------------------
(* Tool selection *)

SpecNoteWords == <<"note", "notes", "summary", "outline", "study guide">>
SpecPracticeWords == <<"flashcard", "quiz", "test", "practice", "review", "memorize">>

\* C1: the tool extract_parameters selects is note_maker when the lower-cased
\* message holds a note-taking keyword, else flashcard_generator when it holds a
\* practice keyword, else concept_explainer; so a message with "flashcard" and
\* no note-taking keyword selects flashcard_generator
C1_ToolSelectionTable ==
    op = "extract_parameters" =>
        LET m == Lower(Message)
        IN /\ response.tool_type =
                IF ContainsAny(m, SpecNoteWords) THEN "note_maker"
                ELSE IF ContainsAny(m, SpecPracticeWords) THEN "flashcard_generator"
                ELSE "concept_explainer"
           /\ (Contains(m, "flashcard") /\ ~ContainsAny(m, SpecNoteWords))
                => response.tool_type = "flashcard_generator"

\* a practice keyword comes first in the text, a note-taking keyword later, and
\* note_maker is selected
C1_Witness ==
    /\ op = "extract_parameters"
    /\ Message = "flashcards notes"
    /\ response.tool_type = "note_maker"

----------------------------------------------------------------------------
(* The scenarios *)

\* C2: for the message "I need comprehensive notes on photosynthesis for my
\* biology class" and a learning style containing "Visual", extraction gives
\* note_maker, topic "Photosynthesis", subject "Biology", style "structured"
\* and include_analogies true
C2_NotesScenario ==
    (/\ op = "extract_parameters"
     /\ Message = "I need comprehensive notes on photosynthesis for my biology class"
     /\ Contains(LearningStyle, "Visual"))
    => /\ response.tool_type = "note_maker"
       /\ response.parameters["topic"] = VStr("Photosynthesis")
       /\ response.parameters["subject"] = VStr("Biology")
       /\ response.parameters["note_taking_style"] = VStr("structured")
       /\ response.parameters["include_analogies"] = VBool(TRUE)

\* C3: for the message "I need some practice flashcards for algebra equations",
\* an empty chat history and the mastery summary "Level 4", extraction gives
\* flashcard_generator, topic "Algebra", subject "Mathematics", count 5 and
\* difficulty "medium"
C3_FlashcardScenario ==
    (/\ op = "extract_parameters"
     /\ Message = "I need some practice flashcards for algebra equations"
     /\ History = <<>>
     /\ Mastery = "Level 4")
    => /\ response.tool_type = "flashcard_generator"
       /\ response.parameters["topic"] = VStr("Algebra")
       /\ response.parameters["subject"] = VStr("Mathematics")
       /\ response.parameters["count"] = VInt(5)
       /\ response.parameters["difficulty"] = VStr("medium")

C3_Witness ==
    /\ op = "extract_parameters"
    /\ Message = "I need some practice flashcards for algebra equations"
    /\ History = <<>>
    /\ Mastery = "Level 4"
    /\ response.parameters["count"] = VInt(5)

\* C4: with an empty message and an empty chat history extraction gives topic
\* "General Topic", subject "General Education" and concept_explainer; with
\* empty profile summaries the note style is outline, the count 10, the
\* difficulty medium and the depth intermediate
C4_EmptyTextFallbacks ==
    /\ (op = "extract_parameters" /\ Message = "" /\ History = <<>>)
        => /\ response.tool_type = "concept_explainer"
           /\ response.parameters["concept_to_explain"] = VStr("General Topic")
           /\ response.parameters["current_topic"] = VStr("General Education")
           /\ _extract_topic(Message, History) = "General Topic"
           /\ _extract_subject(Message, History) = "General Education"
           /\ _infer_flashcard_count(Message) = 10
    /\ (op = "extract_parameters" /\ LearningStyle = "")
        => /\ _infer_note_style(LearningStyle) = "outline"
           /\ response.tool_type = "note_maker"
                => response.parameters["note_taking_style"] = VStr("outline")
    /\ (op = "extract_parameters" /\ Mastery = "" /\ Message = "")
        => /\ _infer_difficulty(Mastery, Message) = "medium"
           /\ _infer_depth(Mastery, Message) = "intermediate"
           /\ response.parameters["desired_depth"] = VStr("intermediate")

C4_Witness ==
    /\ op = "extract_parameters"
    /\ Message = ""
    /\ History = <<>>
    /\ LearningStyle = ""
    /\ Mastery = ""
    /\ response.parameters["concept_to_explain"] = VStr("General Topic")

----------------------------------------------------------------------------
(* Mastery tier *)

SpecDifficultyWords ==
    <<"struggling", "difficult", "hard", "confused", "advanced", "expert",
      "challenging">>
SpecDepthWords ==
    <<"basic", "simple", "beginner", "confused", "advanced", "comprehensive",
      "detailed">>

\* C5, as stated: for a mastery summary containing "Level 8" and a message
\* with no difficulty keyword, the difficulty is "hard" and the depth "advanced"
C5_Level8AsStated ==
    (/\ op = "extract_parameters"
     /\ Contains(Mastery, "Level 8")
     /\ ~ContainsAny(Lower(Message), SpecDifficultyWords))
    => /\ _infer_difficulty(Mastery, Message) = "hard"
       /\ _infer_depth(Mastery, Message) = "advanced"

\* C5, amended: for a mastery summary containing "Level 8", the difficulty is
\* "hard" when the message holds no difficulty keyword, and the depth is
\* "advanced" when the message holds no depth keyword
C5_Level8 ==
    (op = "extract_parameters" /\ Contains(Mastery, "Level 8"))
    => /\ ~ContainsAny(Lower(Message), SpecDifficultyWords)
            => /\ _infer_difficulty(Mastery, Message) = "hard"
               /\ response.tool_type = "flashcard_generator"
                    => response.parameters["difficulty"] = VStr("hard")
       /\ ~ContainsAny(Lower(Message), SpecDepthWords)
            => /\ _infer_depth(Mastery, Message) = "advanced"
               /\ response.tool_type = "concept_explainer"
                    => response.parameters["desired_depth"] = VStr("advanced")

C5_Witness ==
    /\ op = "extract_parameters"
    /\ Contains(Mastery, "Level 8")
    /\ ~ContainsAny(Lower(Message), SpecDepthWords)
    /\ response.tool_type = "concept_explainer"
    /\ response.parameters["desired_depth"] = VStr("advanced")

----------------------------------------------------------------------------
(* The endpoints *)

\* C6: invoke_tool, given the tool and the parameters the endpoint's extractor
\* returns for a snapshot, returns the ToolResponse orchestrate returns for it
C6_RoundTrip ==
    op = "orchestrate" =>
        LET e == Main_extract_parameters(snapshot)
        IN call_tool_directly(e.tool_type, e.parameters) = response

C6_Witness ==
    /\ op = "orchestrate"
    /\ response.success
    /\ response.tool_name = "flashcard_generator"
    /\ Len(response.response_data.flashcards) = 5

\* C7: dispatching a name outside the three tools, by invoke_tool or by
\* EducationalTools.call_tool, raises nothing: it returns a ToolResponse with
\* success false, an empty payload and an error message that is not empty and
\* names the name given
C7_UnknownToolReported ==
    (/\ op \in {"invoke_tool", "call_tool"}
     /\ tool_request.tool_name \notin RecognizedTools)
    => /\ DOMAIN response = ToolResponseFields
       /\ response.success = FALSE
       /\ DOMAIN response.response_data = {}
       /\ response.error_message.t = "str"
       /\ response.error_message.v # ""
       /\ Contains(response.error_message.v, tool_request.tool_name)

\* C8: the parameters extract_parameters returns hold every key of the
\* selected tool's "required" list, none of them null
C8_RequiredPresent ==
    op = "extract_parameters" =>
        LET required == tool_schemas[response.tool_type].required
        IN \A i \in 1..Len(required) :
            /\ required[i] \in DOMAIN response.parameters
            /\ response.parameters[required[i]] # VNull

C8_Witness ==
    /\ op = "extract_parameters"
    /\ response.tool_type = "flashcard_generator"
    /\ {"user_info", "topic", "count", "difficulty", "subject"}
            \subseteq DOMAIN response.parameters

\* a key of the tool's required list is absent from the parameters, or null
MissingRequired(tool_name, parameters) ==
    \E i \in 1..Len(tool_schemas[tool_name].required) :
        LET key == tool_schemas[tool_name].required[i]
        IN key \notin DOMAIN parameters \/ parameters[key] = VNull

\* C9: a recognized tool dispatched with a required key absent or null gives a
\* reported error, not a successful result
C9_MissingRequiredReported ==
    /\ (/\ op = "invoke_tool"
        /\ tool_request.tool_name \in RecognizedTools
        /\ MissingRequired(tool_request.tool_name, tool_request.parameters))
        => response.success = FALSE
    /\ (/\ op = "call_tool"
        /\ tool_request.tool_name \in RecognizedTools
        /\ MissingRequired(tool_request.tool_name, tool_request.parameters))
        => response.raised

\* what the generator of a recognized tool does with the parameters
MockGenerated(tool_name, parameters) ==
    CASE tool_name = "note_maker" -> Mock_note_maker(parameters)
      [] tool_name = "flashcard_generator" -> Mock_flashcard_generator(parameters)
      [] tool_name = "concept_explainer" -> Mock_concept_explainer(parameters)

\* C10: orchestrate and invoke_tool always return a ToolResponse, and when the
\* generator raises, it is one with success false that carries the error
C10_FailuresCaught ==
    /\ op = "orchestrate" =>
        /\ DOMAIN response = ToolResponseFields
        /\ LET e == Main_extract_parameters(snapshot)
           IN MockGenerated(e.tool_type, e.parameters).raised
                => response.success = FALSE
    /\ op = "invoke_tool" =>
        /\ DOMAIN response = ToolResponseFields
        /\ tool_request.tool_name \in RecognizedTools =>
            LET g == MockGenerated(tool_request.tool_name, tool_request.parameters)
            IN g.raised =>
                /\ response.success = FALSE
                /\ DOMAIN response.response_data = {}
                /\ response.error_message = VStr(g.message)

\* flashcard_generator is given a count that is no integer, range() raises
\* TypeError, and the caller gets a ToolResponse with success false
C10_Witness ==
    /\ op = "invoke_tool"
    /\ tool_request.tool_name = "flashcard_generator"
    /\ "count" \in DOMAIN tool_request.parameters
    /\ tool_request.parameters["count"] = VStr("3")
    /\ response.success = FALSE
    /\ response.error_message =
            VStr("'str' object cannot be interpreted as an integer")

----------------------------------------------------------------------------
(* The flashcard count *)

SpecFewWords == <<"few", "some", "little">>
SpecManyWords == <<"many", "lot", "comprehensive", "extensive">>

\* C11: the count extraction gives flashcard_generator is 5 when the
\* lower-cased message holds "few", "some" or "little", else 15 when it holds
\* "many", "lot", "comprehensive" or "extensive", else 10; it is within 1..20
C11_CountTable ==
    (op = "extract_parameters" /\ response.tool_type = "flashcard_generator")
    => LET m == Lower(Message)
           count == response.parameters["count"]
       IN /\ count = VInt(IF ContainsAny(m, SpecFewWords) THEN 5
                          ELSE IF ContainsAny(m, SpecManyWords) THEN 15
                          ELSE 10)
          /\ count.v \in 1..20

\* a message with a word of the few-list and a word of the many-list: the
\* few-list is tested first and the count is 5
C11_Witness ==
    /\ op = "extract_parameters"
    /\ Message = "some comprehensive flashcards"
    /\ response.tool_type = "flashcard_generator"
    /\ response.parameters["count"] = VInt(5)

\* C12: every invocation of flashcard_generator that returns a payload, a
\* direct one with a count below 1 or above 20 included, returns between 1 and
\* 20 flashcards
C12_CountClamped ==
    /\ (/\ op \in {"orchestrate", "invoke_tool"}
        /\ response.success
        /\ response.tool_name = "flashcard_generator")
       => Len(response.response_data.flashcards)
            \in MIN_FLASHCARD_COUNT..MAX_FLASHCARD_COUNT
    /\ (/\ op = "call_tool"
        /\ tool_request.tool_name = "flashcard_generator"
        /\ ~response.raised)
       => Len(response.value.flashcards)
            \in MIN_FLASHCARD_COUNT..MAX_FLASHCARD_COUNT

----------------------------------------------------------------------------
(* The constrained value domains *)

\* C13: the values extraction produces lie in the constrained domains:
\* note_taking_style in {outline, bullet_points, narrative, structured},
\* difficulty in {easy, medium, hard}, desired_depth in {basic, intermediate,
\* advanced, comprehensive} and count in 1..20
C13_ConstrainedDomains ==
    op = "extract_parameters" =>
        LET p == response.parameters
            strs(domain) == {VStr(d) : d \in domain}
        IN /\ response.tool_type = "note_maker" =>
                p["note_taking_style"] \in
                    strs({"outline", "bullet_points", "narrative", "structured"})
           /\ response.tool_type = "flashcard_generator" =>
                /\ p["difficulty"] \in strs({"easy", "medium", "hard"})
                /\ p["count"] \in {VInt(n) : n \in 1..20}
           /\ response.tool_type = "concept_explainer" =>
                p["desired_depth"] \in
                    strs({"basic", "intermediate", "advanced", "comprehensive"})
           /\ "note_taking_style" \in DOMAIN p =>
                p["note_taking_style"].v \in
                    {SUPPORTED_NOTE_STYLES[i] : i \in DOMAIN SUPPORTED_NOTE_STYLES}
           /\ "difficulty" \in DOMAIN p =>
                p["difficulty"].v \in
                    {SUPPORTED_DIFFICULTIES[i] : i \in DOMAIN SUPPORTED_DIFFICULTIES}
           /\ "desired_depth" \in DOMAIN p =>
                p["desired_depth"].v \in
                    {SUPPORTED_DEPTHS[i] : i \in DOMAIN SUPPORTED_DEPTHS}
           /\ "count" \in DOMAIN p =>
                p["count"].v \in MIN_FLASHCARD_COUNT..MAX_FLASHCARD_COUNT

\* a message that asks for advanced flashcards: the difficulty is "hard", a
\* value of the domain, and the count 15
C13_Witness ==
    /\ op = "extract_parameters"
    /\ Message = "many advanced flashcards"
    /\ response.tool_type = "flashcard_generator"
    /\ response.parameters["difficulty"] = VStr("hard")
    /\ response.parameters["count"] = VInt(15)

----------------------------------------------------------------------------
(* The tool listing *)

\* C14: list_tools returns the same value before and after any sequence of
\* orchestrate and invoke_tool calls: every listing, by the endpoint or by
\* get_available_tools, equals the first one, and no call changes the tool
\* schemas
C14_ListStable ==
    /\ tool_schemas = ToolSchemas
    /\ (op \in {"list_tools", "get_available_tools"} /\ listed # None)
        => response = listed

\* a listing made after an earlier listing is over, whatever calls came between
C14_Witness ==
    /\ op = "list_tools"
    /\ listed # None
    /\ response = listed
    /\ Len(response.available_tools) = 3

\* the authoritative table of tools: the required and the optional parameters
\* of each
SpecToolTable ==
    [note_maker |->
        [required |-> <<"user_info", "chat_history", "topic", "subject",
                        "note_taking_style">>,
         optional |-> <<"include_examples", "include_analogies">>],
     flashcard_generator |->
        [required |-> <<"user_info", "topic", "count", "difficulty", "subject">>,
         optional |-> <<"include_examples">>],
     concept_explainer |->
        [required |-> <<"user_info", "chat_history", "concept_to_explain",
                        "current_topic", "desired_depth">>,
         optional |-> <<>>]]

\* the elements of a sequence
Elements(seq) == {seq[i] : i \in DOMAIN seq}

\* C15: list_tools reports the three tools of the table, each once, with the
\* required and optional lists of the table, and the dispatchers accept a name
\* exactly when it is one of these tools
C15_ListedToolsAreDispatched ==
    /\ op \in {"list_tools", "get_available_tools"} =>
        /\ Len(response.available_tools) = 3
        /\ Elements(response.available_tools) = DOMAIN SpecToolTable
        /\ response.tool_schemas = SpecToolTable
    /\ Elements(get_supported_tools) = DOMAIN SpecToolTable
    /\ op = "call_tool" =>
        (tool_request.tool_name \in DOMAIN SpecToolTable
            <=> ~(response.raised /\ response.exc = "ValueError"))
    /\ op = "invoke_tool" =>
        IF tool_request.tool_name \in DOMAIN SpecToolTable
        THEN \/ response.success
             \/ MockGenerated(tool_request.tool_name,
                              tool_request.parameters).raised
        ELSE /\ ~response.success
             /\ response.error_message =
                    VStr(HTTPExceptionStr(404,
                            "Tool '" \o tool_request.tool_name \o "' not found"))

\* the listing, with the three names in the order of the table
C15_Witness ==
    /\ op = "list_tools"
    /\ response.available_tools =
            <<"note_maker", "flashcard_generator", "concept_explainer">>
    /\ response.tool_schemas["flashcard_generator"].required =
            <<"user_info", "topic", "count", "difficulty", "subject">>

----------------------------------------------------------------------------
(* Topic and subject *)

RECURSIVE ContentsFrom(_, _)
\* the lower-cased contents of the turns from turn i on, a space before each
ContentsFrom(history, i) ==
    IF i > Len(history) THEN ""
    ELSE " " \o Lower(history[i].content) \o ContentsFrom(history, i + 1)

\* the lower-cased message followed by the contents of the last n turns
ScannedText(message, history, n) ==
    Lower(message)
        \o ContentsFrom(history, IF Len(history) > n THEN Len(history) - n + 1 ELSE 1)

\* the positions of the list whose keyword occurs in the text
Hits(keywords, text) == {i \in DOMAIN keywords : Contains(text, keywords[i])}

\* the least of a set of positions
First(positions) == CHOOSE i \in positions : \A j \in positions : i <= j

\* the topic extraction handed to the selected tool
ExtractedTopic ==
    IF response.tool_type = "concept_explainer"
    THEN response.parameters["concept_to_explain"]
    ELSE response.parameters["topic"]

\* the subject extraction handed to the selected tool
ExtractedSubject ==
    IF response.tool_type = "concept_explainer"
    THEN response.parameters["current_topic"]
    ELSE response.parameters["subject"]

\* C16: when a keyword of the list occurs in the lower-cased message followed
\* by the contents of the last 3 turns, the topic is the title-cased first such
\* keyword in list order, wherever the keywords stand in the text
C16_TopicFirstInListOrder ==
    op = "extract_parameters" =>
        LET hits == Hits(educational_keywords, ScannedText(Message, History, 3))
        IN hits # {} =>
            ExtractedTopic = VStr(Title(educational_keywords[First(hits)]))

\* the message names "world war", the third turn from the end names "biology",
\* which stands later in the text and earlier in the list: the topic is
\* "Biology"
C16_Witness ==
    /\ op = "extract_parameters"
    /\ Message = "the latest world war"
    /\ Len(History) = 3
    /\ History[1].content = "My Biology exam"
    /\ History[2].content = "Which topics?"
    /\ History[3].content = "Which topics?"
    /\ ExtractedTopic = VStr("Biology")

\* the first 3 whitespace-delimited words of the message, all of them when it
\* has fewer, and "General Topic" when it has none
SpecTopicFallback(message) ==
    LET words == Split(message)
    IN IF words = <<>> THEN "General Topic" ELSE Join(" ", Take(words, 3))

\* C17: when no keyword occurs in the scanned text the topic is the first 3
\* words of the message (all of them when fewer), and "General Topic" only for
\* a message with no word; the topic is a string, also the one of the extractor
\* the orchestrate endpoint runs
C17_TopicFallback ==
    /\ (/\ op = "extract_parameters"
        /\ Hits(educational_keywords, ScannedText(Message, History, 3)) = {})
       => ExtractedTopic = VStr(SpecTopicFallback(Message))
    /\ op = "orchestrate" =>
        LET e == Main_extract_parameters(snapshot)
            topic == IF e.tool_type = "concept_explainer"
                     THEN e.parameters["concept_to_explain"]
                     ELSE e.parameters["topic"]
        IN topic.t = "str"

\* the keywords of the subject mapping, in mapping order
SubjectKeywords == [j \in DOMAIN subject_mapping |-> subject_mapping[j][1]]

\* C18: the subject is the label of the first keyword of the mapping, in
\* mapping order, that occurs in the lower-cased message followed by the
\* contents of the last 2 turns, and "General Education" when none occurs
C18_SubjectFirstInMappingOrder ==
    op = "extract_parameters" =>
        LET hits == Hits(SubjectKeywords, ScannedText(Message, History, 2))
        IN ExtractedSubject =
            VStr(IF hits = {} THEN "General Education"
                 ELSE subject_mapping[First(hits)][2])

\* "biology" stands in the third turn from the end only: the topic scan reads
\* it, the subject scan does not, and the subject is the default
C18_Witness ==
    /\ op = "extract_parameters"
    /\ Message = "please help me now"
    /\ Len(History) = 3
    /\ History[1].content = "My Biology exam"
    /\ History[2].content = "Which topics?"
    /\ History[3].content = "Which topics?"
    /\ ExtractedTopic = VStr("Biology")
    /\ ExtractedSubject = VStr("General Education")

----------------------------------------------------------------------------
(* Difficulty and depth *)

Digits == <<"0", "1", "2", "3", "4", "5", "6", "7", "8", "9">>

IsDigit(c) == \E d \in DOMAIN Digits : Digits[d] = c

DigitValue(c) == (CHOOSE d \in DOMAIN Digits : Digits[d] = c) - 1

RECURSIVE NumberFrom(_, _, _)
\* the number the digits of s from position i on spell, after the value so far
NumberFrom(s, i, value) ==
    IF i <= Len(s) /\ IsDigit(CharAt(s, i))
    THEN NumberFrom(s, i + 1, value * 10 + DigitValue(CharAt(s, i)))
    ELSE value

\* the tier N of the first "Level N" of a mastery summary, 0 when it has none
Tier(mastery) ==
    LET s == Lower(mastery)
        at == {i \in 1..Len(s) :
                /\ i + 6 <= Len(s)
                /\ SubSeq(s, i, i + 5) = "level "
                /\ IsDigit(CharAt(s, i + 6))}
    IN IF at = {} THEN 0 ELSE NumberFrom(s, First(at) + 6, 0)

\* C19: the difficulty is easy when the message holds "struggling",
\* "difficult", "hard" or "confused", else hard when it holds "advanced",
\* "expert" or "challenging", else it follows the tier N of "Level N" in the
\* mastery summary: 1-3 easy, 4-6 medium, 7-9 hard, and medium for every other
\* summary ("Level 10", no level)
C19_DifficultyTwoStages ==
    (op = "extract_parameters" /\ response.tool_type = "flashcard_generator")
    => LET m == Lower(Message)
           n == Tier(Mastery)
       IN response.parameters["difficulty"] =
            VStr(IF ContainsAny(m, <<"struggling", "difficult", "hard", "confused">>)
                 THEN "easy"
                 ELSE IF ContainsAny(m, <<"advanced", "expert", "challenging">>)
                 THEN "hard"
                 ELSE IF n \in 1..3 THEN "easy"
                 ELSE IF n \in 4..6 THEN "medium"
                 ELSE IF n \in 7..9 THEN "hard"
                 ELSE "medium")

SpecNoteStyle(style_lower) ==
    CASE Contains(style_lower, "visual") -> "structured"
      [] ~Contains(style_lower, "visual") /\ Contains(style_lower, "kinesthetic")
            -> "bullet_points"
      [] ~Contains(style_lower, "visual") /\ ~Contains(style_lower, "kinesthetic")
            /\ Contains(style_lower, "auditory") -> "narrative"
      [] OTHER -> "outline"

\* C21: for note_maker the note-taking style is structured when the
\* lower-cased learning style contains "visual", else bullet_points for
\* "kinesthetic", else narrative for "auditory", else outline; examples are
\* always included; analogies are included exactly when the summary
\* contains "visual", that is exactly when the style is structured.
C21_NoteStyleTable ==
    (pc = "responded" /\ op = "extract_parameters"
        /\ response.tool_type = "note_maker") =>
        LET parameters == response.parameters
        IN /\ parameters.note_taking_style
                = VStr(SpecNoteStyle(Lower(LearningStyle)))
           /\ parameters.include_examples = VBool(TRUE)
           /\ parameters.include_analogies
                = VBool(Contains(Lower(LearningStyle), "visual"))
           /\ (parameters.include_analogies = VBool(TRUE))
                <=> (parameters.note_taking_style = VStr("structured"))

\* a summary naming both auditory and visual yields structured notes with
\* analogies
C21_Witness ==
    /\ pc = "responded" /\ op = "extract_parameters"
    /\ response.tool_type = "note_maker"
    /\ Contains(Lower(LearningStyle), "auditory")
    /\ Contains(Lower(LearningStyle), "visual")
    /\ response.parameters.note_taking_style = VStr("structured")
    /\ response.parameters.include_analogies = VBool(TRUE)

\* ---------------------------------------------------------------------
\* C22
\* ---------------------------------------------------------------------

\* the generator of educational_tools.py that carries the name
ToolGenerated(tool_name, parameters) ==
    CASE tool_name = "note_maker" -> note_maker(parameters)
      [] tool_name = "flashcard_generator" -> flashcard_generator(parameters)
      [] tool_name = "concept_explainer" -> concept_explainer(parameters)

\* C22 as stated: dispatching a recognized identifier returns a ToolResponse
\* with success true, the requested name, the generator's return value as
\* payload and no error message, whatever the parameters are
C22_DispatchAsStated ==
    (op = "invoke_tool" /\ tool_request.tool_name \in RecognizedTools) =>
        /\ response.success = TRUE
        /\ response.tool_name = tool_request.tool_name
        /\ response.error_message = VNull

\* C22: dispatching a recognized identifier invokes the generator of that
\* name with the supplied parameters; when the generator returns, invoke_tool
\* returns a ToolResponse with success true, the requested name, the
\* generator's return value as payload and no error message, and
\* EducationalTools.call_tool returns the generator's return value
C22_Dispatch ==
    /\ (op = "invoke_tool" /\ tool_request.tool_name \in RecognizedTools) =>
        LET g == MockGenerated(tool_request.tool_name, tool_request.parameters)
        IN ~g.raised =>
            /\ DOMAIN response = ToolResponseFields
            /\ response.success = TRUE
            /\ response.tool_name = tool_request.tool_name
            /\ response.response_data = g.value
            /\ response.error_message = VNull
    /\ (op = "call_tool" /\ tool_request.tool_name \in RecognizedTools) =>
        response = ToolGenerated(tool_request.tool_name, tool_request.parameters)

\* concept_explainer is dispatched with a concept and a depth of its own and
\* the answer is the explanation of that concept
C22_Witness ==
    /\ op = "invoke_tool"
    /\ tool_request.tool_name = "concept_explainer"
    /\ "concept_to_explain" \in DOMAIN tool_request.parameters
    /\ response.success = TRUE
    /\ response.tool_name = "concept_explainer"
    /\ response.error_message = VNull
    /\ "explanation" \in DOMAIN response.response_data
    /\ response.response_data
        = Mock_concept_explainer(tool_request.parameters).value

\* ---------------------------------------------------------------------
\* C23
\* ---------------------------------------------------------------------

\* what orchestrate answers for a snapshot as the first call after
\* construction: the extractor's tool and the payload its generator makes of
\* the extractor's parameters, both read from the snapshot alone
FirstCallAnswer(conversation_request) ==
    LET e == Main_extract_parameters(conversation_request)
    IN [tool_name |-> e.tool_type,
        parameters |-> e.parameters,
        response_data |-> MockGenerated(e.tool_type, e.parameters).value]

\* C23: the orchestrator is stateless across calls: whatever calls came
\* before, orchestrate answers a snapshot with the tool, the parameters and
\* the payload it answers it with as the first call, and leaves the tool
\* schemas as they were constructed
C23_Stateless ==
    /\ tool_schemas = ToolSchemas
    /\ op = "orchestrate" =>
        LET first == FirstCallAnswer(snapshot)
        IN /\ response.success = TRUE
           /\ response.tool_name = first.tool_name
           /\ response.response_data = first.response_data

\* orchestrate runs after an earlier listing was served and answers the
\* snapshot with the flashcards of a first call
C23_Witness ==
    /\ op = "orchestrate"
    /\ listed # None
    /\ response.tool_name = "flashcard_generator"
    /\ response.tool_name = FirstCallAnswer(snapshot).tool_name
    /\ response.response_data = FirstCallAnswer(snapshot).response_data

\* ---------------------------------------------------------------------
\* C24
\* ---------------------------------------------------------------------

\* the topic and the subject of an extraction
TopicOf(e) ==
    IF e.tool_type = "concept_explainer"
    THEN e.parameters["concept_to_explain"] ELSE e.parameters["topic"]

SubjectOf(e) ==
    IF e.tool_type = "concept_explainer"
    THEN e.parameters["current_topic"] ELSE e.parameters["subject"]

\* the snapshot with the turns older than its last n turns removed
WithLastTurns(conversation_request, n) ==
    [conversation_request EXCEPT !.chat_history = LastN(@, n)]

\* the parameters inferred from the message and the learner: count and
\* difficulty, depth, note style and its flags
InferredKeys ==
    {"count", "difficulty", "desired_depth", "note_taking_style",
     "include_examples", "include_analogies"}

Inferred(e) ==
    [k \in DOMAIN e.parameters \cap InferredKeys |-> e.parameters[k]]

\* C24: the extractor reads a bounded suffix of the conversation: with more
\* than 3 turns the topic is the topic of the snapshot cut to its last 3
\* turns, with more than 2 turns the subject is the subject of the snapshot
\* cut to its last 2 turns, and with any turns at all the tool, the count,
\* the difficulty, the depth and the note style are those of the snapshot
\* with no chat history
C24_BoundedSuffix ==
    op = "extract_parameters" =>
        LET last3 == extract_parameters(WithLastTurns(snapshot, 3))
            last2 == extract_parameters(WithLastTurns(snapshot, 2))
            none == extract_parameters(WithLastTurns(snapshot, 0))
        IN /\ Len(History) > 3 => TopicOf(response) = TopicOf(last3)
           /\ Len(History) > 2 => SubjectOf(response) = SubjectOf(last2)
           /\ Len(History) > 0 =>
                /\ response.tool_type = none.tool_type
                /\ Inferred(response) = Inferred(none)

\* the fourth turn from the end names biology; neither the topic nor the
\* subject takes it up
C24_Witness ==
    /\ op = "extract_parameters"
    /\ History = LongHistory
    /\ Message = "please help me now"
    /\ TopicOf(response) = VStr("please help me")
    /\ SubjectOf(response) = VStr("General Education")
    /\ Contains(Lower(History[1].content), "biology")

\* ---------------------------------------------------------------------
\* C25
\* ---------------------------------------------------------------------

\* C25: sanitize_input never returns a text longer than max_length, for
\* every input and every max_length, and returns the empty string for the
\* empty input
C25_LengthBounded ==
    op = "sanitize_input" =>
        /\ Len(response) <= tool_request.max_length
        /\ tool_request.text = "" => response = ""

\* ---------------------------------------------------------------------
\* C26
\* ---------------------------------------------------------------------

\* text begins with prefix
StartsWith(text, prefix) ==
    Len(text) >= Len(prefix) /\ SubSeq(text, 1, Len(prefix)) = prefix

\* how the question and the answer of a card of each difficulty begin
SpecQuestionStart(difficulty) ==
    CASE difficulty = VStr("easy") -> "What is the basic concept of "
      [] difficulty = VStr("hard") -> "Explain the advanced applications of "
      [] OTHER -> "What are the key principles of "

SpecAnswerStart(difficulty) ==
    CASE difficulty = VStr("easy") -> "The basic concept of "
      [] difficulty = VStr("hard") -> "Advanced applications of "
      [] OTHER -> "The key principles of "

\* C26: given an integer count n >= 0, flashcard_generator of
\* educational_tools.py returns exactly n cards titled "Question 1" to
\* "Question n" in order; each card has the question and answer text of the
\* requested difficulty (easy, hard, and the medium text for every other
\* value); the payload's difficulty field is the requested difficulty; and a
\* card's example is null exactly when include_examples is false
C26_FlashcardsForCount ==
    (/\ op = "call_tool"
     /\ tool_request.tool_name = "flashcard_generator"
     /\ "count" \in DOMAIN tool_request.parameters
     /\ tool_request.parameters["count"].t = "int"
     /\ tool_request.parameters["count"].v >= 0)
    => LET parameters == tool_request.parameters
           n == parameters["count"].v
           difficulty == Get(parameters, "difficulty", VStr("medium"))
           include_examples == Get(parameters, "include_examples", VBool(TRUE))
       IN /\ ~response.raised
          /\ Len(response.value.flashcards) = n
          /\ \A i \in 1..n :
                LET card == response.value.flashcards[i]
                IN /\ card.title = "Question " \o NatStr(i)
                   /\ StartsWith(card.question, SpecQuestionStart(difficulty))
                   /\ StartsWith(card.answer, SpecAnswerStart(difficulty))
                   /\ (card.example = VNull) <=> (include_examples = VBool(FALSE))
          /\ response.value.difficulty = difficulty

\* two cards of a difficulty that is neither easy nor hard, with no examples
C26_Witness ==
    /\ op = "call_tool"
    /\ tool_request.tool_name = "flashcard_generator"
    /\ "count" \in DOMAIN tool_request.parameters
    /\ tool_request.parameters["count"] = VInt(2)
    /\ "difficulty" \in DOMAIN tool_request.parameters
    /\ tool_request.parameters["difficulty"] = VStr("expert")
    /\ "include_examples" \in DOMAIN tool_request.parameters
    /\ Len(response.value.flashcards) = 2
    /\ response.value.flashcards[2].title = "Question 2"
    /\ response.value.flashcards[2].example = VNull
    /\ response.value.difficulty = VStr("expert")

\* ---------------------------------------------------------------------
\* C27
\* ---------------------------------------------------------------------

\* C27: every key of the mapping extract_parameters returns is a required or
\* an optional parameter of the selected tool's schema; no parameter the
\* schema does not declare (chat_history for flashcard_generator) is handed
\* to a tool
C27_OnlyDeclaredKeys ==
    op = "extract_parameters" =>
        LET schema == tool_schemas[response.tool_type]
        IN DOMAIN response.parameters
            \subseteq Elements(schema.required) \cup Elements(schema.optional)

\* ---------------------------------------------------------------------
\* C28
\* ---------------------------------------------------------------------

\* C28: the extractor of main.py, which the orchestrate endpoint runs, and
\* the extractor of orchestrator.py return the same tool and the same
\* parameter mapping for every snapshot
C28_ExtractorsEquivalent ==
    op = "extract_parameters" =>
        /\ Main_extract_parameters(snapshot).tool_type = response.tool_type
        /\ Main_extract_parameters(snapshot).parameters = response.parameters

\* ---------------------------------------------------------------------
\* C29
\* ---------------------------------------------------------------------

\* C29: every entry of the topic keyword list is reachable and none is
\* shadowed: no earlier entry of the list is a substring of it, and the
\* message that consists of the keyword alone, with no chat history, is given
\* the title-cased keyword as its topic
C29_EveryKeywordReachable ==
    op = "extract_parameters" =>
        \A j \in DOMAIN educational_keywords :
            (Lower(Message) = educational_keywords[j] /\ History = <<>>) =>
                /\ \A i \in 1..(j - 1) :
                        ~Contains(educational_keywords[j], educational_keywords[i])
                /\ ExtractedTopic = VStr(Title(educational_keywords[j]))

\* ---------------------------------------------------------------------
\* C30
\* ---------------------------------------------------------------------

\* C30: every ToolResponse orchestrate or invoke_tool returns is well formed:
\* with success true the tool name is one of the three tools and the error
\* message is null; with success false the payload is empty and the error
\* message is set, a string and not null; and orchestrate never takes its
\* unknown-tool branch, since the extractor returns one of the three tools
C30_WellFormed ==
    /\ op \in {"orchestrate", "invoke_tool"} =>
        /\ DOMAIN response = ToolResponseFields
        /\ response.success \in BOOLEAN
        /\ response.success =>
            /\ response.tool_name \in RecognizedTools
            /\ response.error_message = VNull
        /\ ~response.success =>
            /\ DOMAIN response.response_data = {}
            /\ response.error_message # VNull
            /\ response.error_message.t = "str"
    /\ op = "orchestrate" =>
        /\ Main_extract_parameters(snapshot).tool_type \in RecognizedTools
        /\ response.tool_name # "unknown"

\* invoke_tool of flashcard_generator with a null count fails: the payload is
\* empty and the error message is the text of the TypeError
C30_Witness ==
    /\ op = "invoke_tool"
    /\ tool_request.tool_name = "flashcard_generator"
    /\ "count" \in DOMAIN tool_request.parameters
    /\ tool_request.parameters["count"] = VNull
    /\ ~response.success
    /\ DOMAIN response.response_data = {}
    /\ response.error_message =
            VStr("'NoneType' object cannot be interpreted as an integer")

============================================================================
